---- MODULE Spec2Model ----
(***************************************************************************)
(* A model of the YouCube server (src/src/youcube): the websocket          *)
(* dispatcher wshandler and its four actions, the download/convert         *)
(* pipeline of yc_download.download, and the cache sweep                    *)
(* data_cache_cleaner, running concurrently over the shared dict            *)
(* app.shared_ctx.data and the files of DATA_FOLDER.                        *)
(***************************************************************************)
EXTENDS Integers, Sequences, FiniteSets, TLC

\* ------------------------------------------------------------------ bounds
\* frames one connection receives in a run
MaxFrames == 2
\* clock ticks in a run
MaxTicks == 2

\* ------------------------------------------------------- program constants
DATA_CACHE_CLEANUP_AFTER == 3600
DATA_CACHE_CLEANUP_INTERVAL == 300
\* one clock tick: the clock advances in steps of the retention threshold,
\* so that ages below, at and beyond the threshold all occur
TickSeconds == DATA_CACHE_CLEANUP_AFTER

Conns == {"c1", "c2"}
\* the connection that runs beside the sweep in Spec
One == {"c1"}

\* ------------------------------------------------------------ JSON values
\* A decoded JSON value by its Python type: k is "int", "str", "none"
\* (null or an absent key: dict.get gives None for both) or "list".
IntV(n) == [k |-> "int", i |-> n, s |-> ""]
StrV(t) == [k |-> "str", i |-> 0, s |-> t]
NoneV == [k |-> "none", i |-> 0, s |-> ""]
ListV == [k |-> "list", i |-> 0, s |-> ""]

\* isinstance(obj, int) and isinstance(obj, str)
IsInt(v) == v.k = "int"
IsStr(v) == v.k = "str"
\* Python truthiness of a value (None, 0, "" and [] are falsy)
Truthy(v) ==
    \/ v.k = "int" /\ v.i # 0
    \/ v.k = "str" /\ v.s # ""

\* --------------------------------------------------------------- responses
NoResp == [action |-> "", message |-> ""]
Err(m) == [action |-> "error", message |-> m]
Ok(a) == [action |-> a, message |-> ""]

ParseError == Err("Faild to parse Json")
SpecialChars == Err("You dare not use special Characters")

TypeName(cls) == cls

MustBe(name, cls) == Err(name \o " must be a " \o TypeName(cls))

assert_resp(name, obj, cls) ==
    IF (cls = "int" /\ IsInt(obj)) \/ (cls = "str" /\ IsStr(obj))
    THEN NoResp
    ELSE MustBe(name, cls)

\* ------------------------------------------------------------------- frames
\* One inbound websocket frame, by what wshandler makes of it:
\*   "empty"    an empty or absent frame (not message_str)
\*   "invalid"  text that json.loads rejects with JSONDecodeError
\*   "toodeep"  text that json.loads rejects with another exception
\*              (RecursionError on deeply nested brackets)
\*   "nonobj"   JSON that decodes to something that is not a dict
\*   "obj"      a JSON object, with the values of the keys the actions read
Frame(kind, action, url, id, chunkindex, tracker, width, height) ==
    [kind |-> kind, action |-> action, url |-> url, id |-> id,
     chunkindex |-> chunkindex, tracker |-> tracker,
     width |-> width, height |-> height]

Bare(kind, action) == Frame(kind, action, NoneV, NoneV, NoneV, NoneV, NoneV, NoneV)

SafeIds == {"abc"}
UnsafeIds == {"../x"}
Urls == {"u_ok", "u_nodata", "u_live", "u_raise"}

IdVals == {StrV(i) : i \in SafeIds \cup UnsafeIds} \cup {NoneV}
IndexVals == {IntV(0), NoneV}
DimVals == {IntV(2), NoneV, StrV("x")}
UrlVals == {StrV(u) : u \in Urls} \cup {NoneV}

KnownActions == {"get_chunk", "get_vid", "handshake", "request_media"}

Frames ==
    {Bare("empty", NoneV), Bare("invalid", NoneV), Bare("toodeep", NoneV),
     Bare("nonobj", NoneV)}
    \cup {Bare("obj", a) : a \in {StrV("handshake"), StrV("bogus"), NoneV, ListV}}
    \cup {Frame("obj", StrV("request_media"), u, NoneV, NoneV, NoneV, w, h) :
            u \in UrlVals, w \in DimVals, h \in DimVals}
    \cup {Frame("obj", StrV("get_chunk"), NoneV, i, n, NoneV, NoneV, NoneV) :
            i \in IdVals, n \in IndexVals}
    \cup {Frame("obj", StrV("get_vid"), NoneV, i, NoneV, t, w, h) :
            i \in IdVals, t \in IndexVals, w \in DimVals, h \in DimVals}

NoFrame == Bare("", NoneV)

\* ------------------------------------------------------------- file names
\* yc_utils is not among the source files; the names are kept apart by the
\* media id, the format and the dimensions, as the callers assume.
get_audio_name(media_id) == <<media_id, "dfpwm", 0, 0>>
get_video_name(media_id, width, height) == <<media_id, "32vid", width, height>>

is_save(media_id) == media_id \in SafeIds

\* the bound of the clamp is not in the source files
MAX_DIM == 3
Min(a, b) == IF a < b THEN a ELSE b
cap_width_and_height(width, height) == <<Min(width, MAX_DIM), Min(height, MAX_DIM)>>

\* -------------------------------------------------------------------- state
VARIABLES
    conn,   \* per connection: the position of its wshandler coroutine
    disk,   \* the artifact files present in DATA_FOLDER
    data,   \* app.shared_ctx.data: file name -> time of last use
    now,    \* datetime.now(), in seconds
    sweep,  \* the position of the data_cache_cleaner process
    paging, \* one artifact file and what a client has read of it
    listing, \* one resolution of a playlist and what download() made of it
    loop,   \* one request_media: its thread, the event loop, the websocket
    naming  \* one artifact key and the file names the entry points make of it

vars == <<conn, disk, data, now, sweep, paging, listing, loop, naming>>

\* conn[c].pc:
\*   "recv"       awaiting ws.recv()
\*   "read"       a paging action has set the cache entry and awaits the file
\*   "resolve"    download() runs in its thread, before its with block
\*   "extract"    in the with block, before the exists checks
\*   "chk_audio", "chk_video"   the two exists checks of download()
\*   "fetch"      yt_dl.process_ie_result(download=True) runs
\*   "audio_run"  the audio converter runs;  "video_run"  the video converter
\*   "register"   request_media stores the returned file names
\*   "reply"      the iteration has its response (or none) and is at its end
\*   "closed"     the loop was left on an empty frame
\*   "crashed"    an exception left wshandler
\* n: frames received; msg: the frame in hand; resp: the response to send;
\* io: what the frame's handling has invoked ("paging": a file open,
\* "pipeline": download()); mid, aud, vid, files: locals of download();
\* tmp: the TemporaryDirectory of download() is there; events: the error
\* events download() has sent beside the response; rc: the exit codes of
\* the converters it has run (-1: not run); gone: "no" while the
\* client is there, and once it has left "cancelled" when that cancelled the
\* handler's task, "lost" when the handler runs on.
Idle(n) ==
    [pc |-> "recv", n |-> n, msg |-> NoFrame, resp |-> NoResp, io |-> "none",
     mid |-> "", aud |-> FALSE, vid |-> FALSE, files |-> <<>>,
     tmp |-> FALSE, events |-> {}, rc |-> [audio |-> -1, video |-> -1],
     gone |-> "no"]

NoEntry == <<<<"", "", 0, 0>>, 0>>

\* no file is being paged, no playlist is being resolved
NoPaging == [kind |-> "none"]
NoListing == [kind |-> "none"]
\* no request is followed through the event loop
NoLoop == [thread |-> "none"]
\* no key is being named
NoNaming == [kind |-> "none"]

\* ready(): the Data-Cache-Cleaner is registered when both values of its
\* configuration are positive; pc "off" is a sweep that was never started
ready_always(interval, after) ==
    [pc |-> "sleep", todo |-> {}, cur |-> NoEntry, due |-> {},
     interval |-> interval, after |-> after]

ready(interval, after) ==
    [pc |-> IF interval > 0 /\ after > 0 THEN "sleep" ELSE "off",
     todo |-> {}, cur |-> NoEntry, due |-> {},
     interval |-> interval, after |-> after]

Init ==
    /\ conn = [c \in Conns |-> Idle(0)]
    /\ disk = {}
    /\ data = [f \in {} |-> 0]
    /\ now = 0
    /\ sweep = ready(DATA_CACHE_CLEANUP_INTERVAL, DATA_CACHE_CLEANUP_AFTER)
    /\ paging = NoPaging
    /\ listing = NoListing
    /\ loop = NoLoop
    /\ naming = NoNaming

\* data[k] = v and data.pop(k)
Put(d, k, v) == [f \in DOMAIN d \cup {k} |-> IF f = k THEN v ELSE d[f]]
Drop(d, k) == [f \in DOMAIN d \ {k} |-> d[f]]

\* ---------------------------------------------------------------- actions
\* What an action handler does up to its first suspension: the position it
\* leaves the connection in, its response if it has one, and the cache
\* entries it sets to datetime.now().
Outcome(pc, resp, touch) == [pc |-> pc, resp |-> resp, touch |-> touch]

handshake(message) == Outcome("reply", Ok("handshake"), {})

request_media(message) ==
    LET error == assert_resp("url", message.url, "str")
    IN  IF error # NoResp THEN Outcome("reply", error, {})
        ELSE Outcome("resolve", NoResp, {})

\* get_chunk without the is_save test: any string id is used in the path
get_chunk_unchecked(message) ==
    LET e1 == assert_resp("chunkindex", message.chunkindex, "int")
        e2 == assert_resp("id", message.id, "str")
    IN  IF e1 # NoResp THEN Outcome("reply", e1, {})
        ELSE IF e2 # NoResp THEN Outcome("reply", e2, {})
        ELSE Outcome("read", NoResp, {get_audio_name(message.id.s)})

\* get_chunk with the cache entry set before the is_save test
get_chunk_eager(message) ==
    LET e1 == assert_resp("chunkindex", message.chunkindex, "int")
        e2 == assert_resp("id", message.id, "str")
    IN  IF e1 # NoResp THEN Outcome("reply", e1, {})
        ELSE IF e2 # NoResp THEN Outcome("reply", e2, {})
        ELSE IF is_save(message.id.s)
        THEN Outcome("read", NoResp, {get_audio_name(message.id.s)})
        ELSE Outcome("reply", SpecialChars, {get_audio_name(message.id.s)})

get_chunk(message) ==
    LET e1 == assert_resp("chunkindex", message.chunkindex, "int")
        e2 == assert_resp("id", message.id, "str")
    IN  IF e1 # NoResp THEN Outcome("reply", e1, {})
        ELSE IF e2 # NoResp THEN Outcome("reply", e2, {})
        ELSE IF IsStr(message.id) /\ is_save(message.id.s)
        THEN IF IsInt(message.chunkindex)
             THEN Outcome("read", NoResp, {get_audio_name(message.id.s)})
             ELSE Outcome("reply", Err("Invalid chunk index"),
                          {get_audio_name(message.id.s)})
        ELSE Outcome("reply", SpecialChars, {})

\* get_vid with the cache entry left alone until the file has been read
get_vid_untouched(message) ==
    LET e1 == assert_resp("tracker", message.tracker, "int")
        e2 == assert_resp("id", message.id, "str")
        e3 == assert_resp("width", message.width, "int")
        e4 == assert_resp("height", message.height, "int")
    IN  IF e1 # NoResp THEN Outcome("reply", e1, {})
        ELSE IF e2 # NoResp THEN Outcome("reply", e2, {})
        ELSE IF e3 # NoResp THEN Outcome("reply", e3, {})
        ELSE IF e4 # NoResp THEN Outcome("reply", e4, {})
        ELSE IF is_save(message.id.s) THEN Outcome("read", NoResp, {})
        ELSE Outcome("reply", SpecialChars, {})

get_vid(message) ==
    LET e1 == assert_resp("tracker", message.tracker, "int")
        e2 == assert_resp("id", message.id, "str")
        e3 == assert_resp("width", message.width, "int")
        e4 == assert_resp("height", message.height, "int")
    IN  IF e1 # NoResp THEN Outcome("reply", e1, {})
        ELSE IF e2 # NoResp THEN Outcome("reply", e2, {})
        ELSE IF e3 # NoResp THEN Outcome("reply", e3, {})
        ELSE IF e4 # NoResp THEN Outcome("reply", e4, {})
        ELSE IF ~(IsInt(message.width) /\ IsInt(message.height))
        THEN Outcome("reply", Err("Invalid width or height"), {})
        ELSE LET wh == cap_width_and_height(message.width.i, message.height.i)
                 file_name == get_video_name(message.id.s, wh[1], wh[2])
             IN  IF IsStr(message.id) /\ is_save(message.id.s)
                 THEN IF IsInt(message.tracker)
                      THEN Outcome("read", NoResp, {file_name})
                      ELSE Outcome("reply", Err("Invalid tracker"), {file_name})
                 ELSE Outcome("reply", SpecialChars, {})

\* actions[message.get("action")](message, ws, request)
Dispatch(message) ==
    CASE message.action.s = "handshake" -> handshake(message)
      [] message.action.s = "request_media" -> request_media(message)
      [] message.action.s = "get_chunk" -> get_chunk(message)
      [] message.action.s = "get_vid" -> get_vid(message)

\* message.get("action") in actions
InActions(message) == IsStr(message.action) /\ message.action.s \in KnownActions

\* One pass of the loop of wshandler from ws.recv() to the first suspension
\* of the action handler.
Handle(f) ==
    CASE f.kind = "empty" -> Outcome("closed", NoResp, {})
      [] f.kind = "invalid" -> Outcome("reply", ParseError, {})
      [] f.kind = "toodeep" -> Outcome("crashed", NoResp, {})
      [] f.kind = "nonobj" -> Outcome("crashed", NoResp, {})
      [] f.kind = "obj" ->
            IF f.action.k = "list" THEN Outcome("crashed", NoResp, {})
            ELSE IF InActions(f) THEN Dispatch(f)
            ELSE Outcome("reply", NoResp, {})

IoOf(pc) ==
    CASE pc = "resolve" -> "pipeline"
      [] OTHER -> "none"

\* wshandler with the next ws.recv() not waiting for the handler in progress
ReceivePipelined(c, f) ==
    /\ conn[c].pc \notin {"closed", "crashed"}
    /\ conn[c].n < MaxFrames
    /\ LET o == Handle(f)
       IN  /\ conn' = [conn EXCEPT ![c] =
                  [Idle(conn[c].n + 1) EXCEPT
                      !.pc = o.pc, !.msg = f, !.resp = o.resp, !.io = IoOf(o.pc)]]
           /\ data' = [g \in DOMAIN data \cup o.touch |->
                          IF g \in o.touch THEN now ELSE data[g]]
    /\ UNCHANGED <<naming, loop, paging, listing, disk, now, sweep>>

Receive(c, f) ==
    /\ conn[c].pc = "recv"
    /\ conn[c].n < MaxFrames
    /\ LET o == Handle(f)
       IN  /\ conn' = [conn EXCEPT ![c] =
                  [Idle(conn[c].n + 1) EXCEPT
                      !.pc = o.pc, !.msg = f, !.resp = o.resp, !.io = IoOf(o.pc)]]
           /\ data' = [g \in DOMAIN data \cup o.touch |->
                          IF g \in o.touch THEN now ELSE data[g]]
    /\ UNCHANGED <<naming, loop, paging, listing, disk, now, sweep>>

\* the file a paging action opens
PagedFile(message) ==
    IF message.action.s = "get_chunk"
    THEN get_audio_name(message.id.s)
    ELSE LET wh == cap_width_and_height(message.width.i, message.height.i)
         IN  get_video_name(message.id.s, wh[1], wh[2])

PagedResp(message) ==
    IF message.action.s = "get_chunk" THEN Ok("chunk") ELSE Ok("vid")

\* getchunk / get_vid: open_async of the file, then the read
Read(c) ==
    /\ conn[c].pc = "read"
    /\ conn' = [conn EXCEPT ![c] =
          IF PagedFile(conn[c].msg) \in disk
          THEN [@ EXCEPT !.pc = "reply", !.resp = PagedResp(conn[c].msg),
                         !.io = "paging"]
          ELSE [@ EXCEPT !.pc = "crashed", !.io = "paging"]]
    /\ UNCHANGED <<naming, loop, paging, listing, disk, data, now, sweep>>

\* await ws.send(dumps(response)), or nothing to send, and back to ws.recv()
Reply(c) ==
    /\ conn[c].pc = "reply"
    /\ conn' = [conn EXCEPT ![c] =
          IF conn[c].gone = "no" THEN Idle(conn[c].n)
          ELSE [@ EXCEPT !.pc = "closed"]]
    /\ UNCHANGED <<naming, loop, paging, listing, disk, data, now, sweep>>

\* ---------------------------------------------------------------- pipeline
\* download(url, resp, loop, width, height, spotify_url_processor)
is_video(message) == message.width.k # "none" /\ message.height.k # "none"

\* "if width and height: cap_width_and_height(width, height)": the clamp is
\* applied to truthy values only, and fails on a value that is not a number
ClampFails(message) ==
    /\ Truthy(message.width) /\ Truthy(message.height)
    /\ ~(IsInt(message.width) /\ IsInt(message.height))

Capped(message) ==
    IF Truthy(message.width) /\ Truthy(message.height)
    THEN cap_width_and_height(message.width.i, message.height.i)
    ELSE <<message.width.i, message.height.i>>

\* safe_width and safe_height: an int as it is, anything else 0
safe_width(message) == IF IsInt(message.width) THEN Capped(message)[1] ELSE 0
safe_height(message) == IF IsInt(message.height) THEN Capped(message)[2] ELSE 0

AudioFile(r) == get_audio_name(r.mid)
VideoFile(r) == get_video_name(r.mid, safe_width(r.msg), safe_height(r.msg))

\* a live media is resolved like any other
ResolutionOfLive(url) ==
    IF url \in {"u_ok", "u_live"} THEN [res |-> "ok", id |-> "abc", message |-> ""]
    ELSE [res |-> "raise", id |-> "", message |-> ""]

\* What the Resolver makes of a URL: a media id, an error return of
\* download(), or an exception raised by extract_info.
Resolution(url) ==
    CASE url = "u_ok" -> [res |-> "ok", id |-> "abc", message |-> ""]
      [] url = "u_nodata" ->
            [res |-> "error", id |-> "",
             message |-> "Could not extract information from the URL"]
      [] url = "u_live" ->
            [res |-> "error", id |-> "",
             message |-> "Livestreams are not supported"]
      [] url = "u_raise" -> [res |-> "raise", id |-> "", message |-> ""]

\* download() returns to request_media, whose task was cancelled or not
Back(r) == IF r.gone = "cancelled" THEN [r EXCEPT !.pc = "closed"] ELSE r

\* download() up to the entry of "with TemporaryDirectory(...) as temp_dir"
Scratch(c) ==
    /\ conn[c].pc = "resolve"
    /\ conn' = [conn EXCEPT ![c] =
          IF ClampFails(conn[c].msg)
          THEN [@ EXCEPT !.pc = "crashed"]
          ELSE [@ EXCEPT !.pc = "extract", !.tmp = TRUE]]
    /\ UNCHANGED <<naming, loop, paging, listing, disk, data, now, sweep>>

\* download() from there up to create_data_folder_if_not_present(); an
\* exception and a return leave the with block, which removes temp_dir
Resolve(c) ==
    /\ conn[c].pc = "extract"
    /\ LET r == conn[c]
           d == Resolution(r.msg.url.s)
       IN  conn' = [conn EXCEPT ![c] =
              IF d.res = "raise"
              THEN [r EXCEPT !.pc = "crashed", !.tmp = FALSE]
              ELSE IF d.res = "error"
              THEN Back([r EXCEPT !.pc = "reply", !.resp = Err(d.message),
                                  !.tmp = FALSE])
              ELSE [r EXCEPT !.pc = "chk_audio", !.mid = d.id]]
    /\ UNCHANGED <<naming, loop, paging, listing, disk, data, now, sweep>>

\* audio_downloaded = is_audio_already_downloaded(media_id)
CheckAudio(c) ==
    /\ conn[c].pc = "chk_audio"
    /\ conn' = [conn EXCEPT ![c] =
          [@ EXCEPT !.pc = "chk_video", !.aud = AudioFile(conn[c]) \in disk]]
    /\ UNCHANGED <<naming, loop, paging, listing, disk, data, now, sweep>>

NeedAudio(r) == ~r.aud
NeedVideo(r) == ~r.vid /\ is_video(r.msg)

FilesOf(r) ==
    IF is_video(r.msg) THEN <<AudioFile(r), VideoFile(r)>> ELSE <<AudioFile(r)>>

\* the second converter is not run once the first has failed
AfterAudioAborts(r) ==
    IF NeedVideo(r) /\ r.rc.audio = 0 THEN [r EXCEPT !.pc = "video_run"]
    ELSE Back([r EXCEPT !.pc = "register", !.files = FilesOf(r), !.tmp = FALSE])

\* where download() goes once the audio converter is done or skipped
AfterAudio(r) ==
    IF NeedVideo(r) THEN [r EXCEPT !.pc = "video_run"]
    ELSE Back([r EXCEPT !.pc = "register", !.files = FilesOf(r), !.tmp = FALSE])

\* where download() goes once the source is fetched or needs no fetching
AfterFetch(r) ==
    IF NeedAudio(r) THEN [r EXCEPT !.pc = "audio_run"] ELSE AfterAudio(r)

\* video_downloaded = is_video_already_downloaded(...), and the decision
\* to download
CheckVideo(c) ==
    /\ conn[c].pc = "chk_video"
    /\ LET r == [conn[c] EXCEPT !.vid = VideoFile(conn[c]) \in disk]
       IN  conn' = [conn EXCEPT ![c] =
              IF NeedAudio(r) \/ NeedVideo(r)
              THEN [r EXCEPT !.pc = "fetch"]
              ELSE AfterFetch(r)]
    /\ UNCHANGED <<naming, loop, paging, listing, disk, data, now, sweep>>

\* the download raises and temp_dir is left behind
FetchLeaks(c, raises) ==
    /\ conn[c].pc = "fetch"
    /\ conn' = [conn EXCEPT ![c] =
          IF raises THEN [@ EXCEPT !.pc = "crashed"] ELSE AfterFetch(conn[c])]
    /\ UNCHANGED <<naming, loop, paging, listing, disk, data, now, sweep>>

\* yt_dl.process_ie_result(data, download=True): done, or it raises; when it
\* is done the first converter that is needed is started
Fetch(c, raises) ==
    /\ conn[c].pc = "fetch"
    /\ conn' = [conn EXCEPT ![c] =
          IF raises THEN [@ EXCEPT !.pc = "crashed", !.tmp = FALSE]
          ELSE AfterFetch(conn[c])]
    /\ UNCHANGED <<naming, loop, paging, listing, disk, data, now, sweep>>

\* The converter exits with returncode: on 0 its output file is there, on
\* another code it may have left a file or not.
Converted(file, returncode, leaves) ==
    IF returncode = 0 \/ leaves THEN disk \cup {file} ELSE disk

\* the error event a converter's exit code makes download() send
Failed(events, returncode, message) ==
    IF returncode # 0 THEN events \cup {message} ELSE events

\* download_audio: run_with_live_output([FFMPEG_PATH, ...]) returns
AudioExit(c, returncode, leaves) ==
    /\ conn[c].pc = "audio_run"
    /\ disk' = Converted(AudioFile(conn[c]), returncode, leaves)
    /\ conn' = [conn EXCEPT ![c] =
          AfterAudio([@ EXCEPT !.rc.audio = returncode, !.events =
                        Failed(@, returncode, "Faild to convert audio!")])]
    /\ UNCHANGED <<naming, loop, paging, listing, data, now, sweep>>

\* download_video: run_with_live_output([SANJUUNI_PATH, ...]) returns
VideoExit(c, returncode, leaves) ==
    /\ conn[c].pc = "video_run"
    /\ disk' = Converted(VideoFile(conn[c]), returncode, leaves)
    /\ conn' = [conn EXCEPT ![c] =
          Back([@ EXCEPT !.pc = "register", !.files = FilesOf(conn[c]),
                         !.tmp = FALSE, !.rc.video = returncode,
                         !.events = Failed(@, returncode, "Faild to convert video!")])]
    /\ UNCHANGED <<naming, loop, paging, listing, data, now, sweep>>

\* listdir(temp_dir)[0] or run_with_live_output raises in download_audio or
\* download_video (nothing was downloaded, the converter is not installed)
ConverterRaises(c) ==
    /\ conn[c].pc \in {"audio_run", "video_run"}
    /\ conn' = [conn EXCEPT ![c] = [@ EXCEPT !.pc = "crashed", !.tmp = FALSE]]
    /\ UNCHANGED <<naming, loop, paging, listing, disk, data, now, sweep>>

\* The client goes away while download() downloads or converts in its
\* thread: the thread runs on; the task of wshandler, which awaits it, is
\* cancelled by the server, or is not.
Disconnect(c, cancelled) ==
    /\ conn[c].pc \in {"fetch", "audio_run", "video_run"}
    /\ conn[c].gone = "no"
    /\ conn' = [conn EXCEPT ![c] =
          [@ EXCEPT !.gone = IF cancelled THEN "cancelled" ELSE "lost"]]
    /\ UNCHANGED <<naming, loop, paging, listing, disk, data, now, sweep>>

\* request_media: "for file in files: data[file] = datetime.now()", one
\* entry at a time, then "return out"
Register(c) ==
    /\ conn[c].pc = "register"
    /\ data' = Put(data, Head(conn[c].files), now)
    /\ conn' = [conn EXCEPT ![c] =
          IF Len(conn[c].files) = 1
          THEN [@ EXCEPT !.pc = "reply", !.resp = Ok("media"), !.files = <<>>]
          ELSE [@ EXCEPT !.files = Tail(conn[c].files)]]
    /\ UNCHANGED <<naming, loop, paging, listing, disk, now, sweep>>

\* ------------------------------------------------------------------- sweep
\* data_cache_cleaner. sweep.pc:
\*   "sleep"   in sleep(DATA_CACHE_CLEANUP_INTERVAL)
\*   "iter"    in the for loop, between two entries of the snapshot
\*   "exists"  the entry in hand is stale; before exists(file_path)
\*   "remove"  before remove(file_path)
\*   "deleted"  the file was deleted;  "pop"  there was no file to delete:
\*              both before data.pop(file_name)
\*   "dead"    an exception left the function
\* todo holds the entries of the snapshot still to visit; they are visited
\* in any order, which covers every insertion order of the dict. cur is the
\* entry in hand. due records, for the pass, the entries of the snapshot that
\* were stale when it was taken.
Stale(last_used) == now - last_used > sweep.after

\* list(data.items())
Snapshot == {<<f, data[f]>> : f \in DOMAIN data}

SweepWake ==
    /\ sweep.pc = "sleep"
    /\ sweep' = [sweep EXCEPT !.pc = "iter", !.todo = Snapshot,
                              !.due = {e \in Snapshot : Stale(e[2])}]
    /\ UNCHANGED <<naming, loop, paging, listing, conn, disk, data, now>>

\* the next entry of the snapshot, and the test of its age
SweepNext(e) ==
    /\ sweep.pc = "iter"
    /\ e \in sweep.todo
    /\ sweep' = IF Stale(e[2])
                THEN [sweep EXCEPT !.pc = "exists", !.todo = sweep.todo \ {e},
                                   !.cur = e]
                ELSE [sweep EXCEPT !.todo = sweep.todo \ {e}]
    /\ UNCHANGED <<naming, loop, paging, listing, conn, disk, data, now>>

\* the for loop is done: back to sleep
SweepDone ==
    /\ sweep.pc = "iter"
    /\ sweep.todo = {}
    /\ sweep' = [sweep EXCEPT !.pc = "sleep", !.due = {}]
    /\ UNCHANGED <<naming, loop, paging, listing, conn, disk, data, now>>

\* the sweep without the exists test: remove is called on every stale entry
SweepExistsBlind ==
    /\ sweep.pc = "exists"
    /\ sweep' = [sweep EXCEPT !.pc = "remove"]
    /\ UNCHANGED <<naming, loop, paging, listing, conn, disk, data, now>>

SweepExists ==
    /\ sweep.pc = "exists"
    /\ sweep' = [sweep EXCEPT !.pc =
                    IF sweep.cur[1] \in disk THEN "remove" ELSE "pop"]
    /\ UNCHANGED <<naming, loop, paging, listing, conn, disk, data, now>>

\* remove(file_path): the file is deleted, or remove raises OSError (the
\* file is gone, or the process may not delete it), which nothing catches
SweepRemove(fails) ==
    /\ sweep.pc = "remove"
    /\ IF fails \/ sweep.cur[1] \notin disk
       THEN /\ sweep' = [sweep EXCEPT !.pc = "dead"]
            /\ disk' = disk
       ELSE /\ sweep' = [sweep EXCEPT !.pc = "deleted"]
            /\ disk' = disk \ {sweep.cur[1]}
    /\ UNCHANGED <<naming, loop, paging, listing, conn, data, now>>

\* data.pop(file_name), which raises KeyError on a missing key
SweepPop ==
    /\ sweep.pc \in {"deleted", "pop"}
    /\ IF sweep.cur[1] \in DOMAIN data
       THEN /\ data' = Drop(data, sweep.cur[1])
            /\ sweep' = [sweep EXCEPT !.pc = "iter", !.cur = NoEntry]
       ELSE /\ data' = data
            /\ sweep' = [sweep EXCEPT !.pc = "dead"]
    /\ UNCHANGED <<naming, loop, paging, listing, conn, disk, now>>

\* time passes
Tick ==
    /\ now < MaxTicks * TickSeconds
    /\ now' = now + TickSeconds
    /\ UNCHANGED <<naming, loop, paging, listing, conn, disk, data, sweep>>

\* The well-formed request_media frames (audio alone, or audio and video):
\* what two clients send to race on one key
MediaFrames ==
    {f \in Frames :
        /\ f.action = StrV("request_media")
        /\ IsStr(f.url)
        /\ f.width = f.height
        /\ f.width.k \in {"int", "none"}}

\* One client connection beside the sweep and the clock.
Next ==
    \/ \E c \in One, f \in Frames : Receive(c, f)
    \/ \E c \in One : Read(c)
    \/ \E c \in One : Reply(c)
    \/ \E c \in One : Scratch(c)
    \/ \E c \in One : Resolve(c)
    \/ \E c \in One : CheckAudio(c)
    \/ \E c \in One : CheckVideo(c)
    \/ \E c \in One, raises \in BOOLEAN : Fetch(c, raises)
    \/ \E c \in One, rc \in {0, 1}, leaves \in BOOLEAN : AudioExit(c, rc, leaves)
    \/ \E c \in One, rc \in {0, 1}, leaves \in BOOLEAN : VideoExit(c, rc, leaves)
    \/ \E c \in One : ConverterRaises(c)
    \/ \E c \in One, cancelled \in BOOLEAN : Disconnect(c, cancelled)
    \/ \E c \in One : Register(c)
    \/ SweepWake
    \/ \E e \in sweep.todo : SweepNext(e)
    \/ SweepDone
    \/ SweepExists
    \/ \E fails \in BOOLEAN : SweepRemove(fails)
    \/ SweepPop
    \/ Tick

\* Two client connections that request media concurrently.
NextTwo ==
    \/ \E c \in Conns, f \in MediaFrames : Receive(c, f)
    \/ \E c \in Conns : Reply(c)
    \/ \E c \in Conns : Scratch(c)
    \/ \E c \in Conns : Resolve(c)
    \/ \E c \in Conns : CheckAudio(c)
    \/ \E c \in Conns : CheckVideo(c)
    \/ \E c \in Conns, raises \in BOOLEAN : Fetch(c, raises)
    \/ \E c \in Conns, rc \in {0, 1}, leaves \in BOOLEAN : AudioExit(c, rc, leaves)
    \/ \E c \in Conns, rc \in {0, 1}, leaves \in BOOLEAN : VideoExit(c, rc, leaves)
    \/ \E c \in Conns : Register(c)

Spec == Init /\ [][Next]_vars
SpecTwo == Init /\ [][NextTwo]_vars

\* The server under each configuration of the sweep: the values of
\* DATA_CACHE_CLEANUP_INTERVAL and DATA_CACHE_CLEANUP_AFTER in the
\* environment, negative, zero and the defaults.
Intervals == {-1, 0, DATA_CACHE_CLEANUP_INTERVAL}
Retentions == {0, DATA_CACHE_CLEANUP_AFTER}

InitConfig ==
    /\ conn = [c \in Conns |-> Idle(0)]
    /\ disk = {}
    /\ data = [f \in {} |-> 0]
    /\ now = 0
    /\ \E interval \in Intervals, after \in Retentions :
          sweep = ready(interval, after)
    /\ paging = NoPaging
    /\ listing = NoListing
    /\ loop = NoLoop
    /\ naming = NoNaming

SpecConfig == InitConfig /\ [][Next]_vars

\* ------------------------------------------------------------ file paging
\* the longest audio file has MaxChunks whole chunks and a part of one more
MaxChunks == 2
\* the longest video file has MaxLines frame lines
MaxLines == 11

CHUNK_SIZE == 16
CHUNKS_AT_ONCE == CHUNK_SIZE * 256
FRAMES_AT_ONCE == 10

\* file.read(size) of a binary file whose position is pos (file.seek(pos)
\* may set it beyond the end): the bytes from there, size of them at most
read(content, pos, size) ==
    LET left == IF Len(content) > pos THEN Len(content) - pos ELSE 0
    IN  [i \in 1..Min(size, left) |-> content[pos + i]]

\* getchunk with the chunk index taken for the byte offset
getchunk_at_offset(media_file, chunkindex) ==
    read(media_file, chunkindex, CHUNKS_AT_ONCE)

getchunk(media_file, chunkindex) ==
    read(media_file, chunkindex * CHUNKS_AT_ONCE, CHUNKS_AT_ONCE)

\* file.readline() of a text file whose position is pos: the characters up
\* to and with the next newline, or up to the end of the file
readline(content, pos) ==
    LET ends == {i \in pos + 1..Len(content) : content[i] = "\n"}
        last == IF ends = {} THEN Len(content)
                ELSE CHOOSE i \in ends : \A j \in ends : i <= j
    IN  IF pos >= Len(content) THEN <<>> ELSE SubSeq(content, pos + 1, last)

\* line[:-1]
AllButLast(line) == SubSeq(line, 1, Len(line) - 1)

\* the lines that count calls of readline() give from pos on, as read
RECURSIVE readlines(_, _, _)
readlines(content, pos, count) ==
    IF count = 0 THEN <<>>
    ELSE LET line == readline(content, pos)
         IN  <<line>> \o readlines(content, pos + Len(line), count - 1)

\* get_vid(vid_file, tracker) of youcube.py (the function, not the action)
get_vid_file(vid_file, tracker) ==
    LET raw == readlines(vid_file, tracker, FRAMES_AT_ONCE)
    IN  [i \in 1..FRAMES_AT_ONCE |-> AllButLast(raw[i])]

\* the sum of the lengths of the lines
RECURSIVE Length(_)
Length(lines) == IF lines = <<>> THEN 0 ELSE Len(Head(lines)) + Length(Tail(lines))

\* Audio files: every length around the chunk boundaries, with a content
\* that tells every offset from its neighbours and from the offset one
\* chunk away.
AudioSizes ==
    {k * CHUNKS_AT_ONCE + d : k \in 0..MaxChunks, d \in {0, 1, CHUNKS_AT_ONCE - 1}}
AudioContents ==
    {[i \in 1..size |-> (i * seed) % 251] : size \in AudioSizes, seed \in {1, 3}}

\* Video files: lines of one width, each line of its own letter, the last
\* line with its newline or without.
Letter(j) == <<"a", "b", "c">>[(j % 3) + 1]
RECURSIVE FrameLines(_, _, _)
FrameLines(count, width, newline) ==
    IF count = 0 THEN <<>>
    ELSE FrameLines(count - 1, width, TRUE)
         \o [i \in 1..width |-> Letter(count)]
         \o (IF newline THEN <<"\n">> ELSE <<>>)
VideoContents ==
    {FrameLines(count, width, newline) :
        count \in 0..MaxLines, width \in {1, 2}, newline \in BOOLEAN}

\* A client that pages one file. Audio: n and chunk are the last request
\* and its answer (n is -1 before the first request); next and out are the chunks fetched in order from 0 and
\* their concatenation. Video: tracker is the offset of the next page, lines
\* the records received so far, raw the lines as they are in the file.
InitPaging ==
    /\ conn = [c \in Conns |-> Idle(0)]
    /\ disk = {}
    /\ data = [f \in {} |-> 0]
    /\ now = 0
    /\ sweep = ready(DATA_CACHE_CLEANUP_INTERVAL, DATA_CACHE_CLEANUP_AFTER)
    /\ listing = NoListing
    /\ loop = NoLoop
    /\ naming = NoNaming
    /\ \/ \E content \in AudioContents :
             paging = [kind |-> "audio", file |-> content, n |-> -1,
                       chunk |-> <<>>, next |-> 0, out |-> <<>>]
       \/ \E content \in VideoContents :
             paging = [kind |-> "video", file |-> content, tracker |-> 0,
                       lines |-> <<>>, raw |-> <<>>, pages |-> 0]

\* {"action": "get_chunk", "chunkindex": n}
PageChunk(n) ==
    /\ paging.kind = "audio"
    /\ LET chunk == getchunk(paging.file, n)
       IN  paging' = IF n = paging.next
                     THEN [paging EXCEPT !.n = n, !.chunk = chunk,
                                         !.next = n + 1, !.out = @ \o chunk]
                     ELSE [paging EXCEPT !.n = n, !.chunk = chunk]
    /\ UNCHANGED <<naming, loop, conn, disk, data, now, sweep, listing>>

\* {"action": "get_vid", "tracker": the end of the page before}
PageVid ==
    /\ paging.kind = "video"
    /\ paging.tracker <= Len(paging.file)
    /\ paging.pages * FRAMES_AT_ONCE <= MaxLines
    /\ LET raw == readlines(paging.file, paging.tracker, FRAMES_AT_ONCE)
       IN  paging' = [paging EXCEPT
                         !.tracker = @ + Length(raw),
                         !.lines = @ \o get_vid_file(paging.file, paging.tracker),
                         !.raw = @ \o raw,
                         !.pages = @ + 1]
    /\ UNCHANGED <<naming, loop, conn, disk, data, now, sweep, listing>>

NextPaging ==
    \/ \E n \in 0..MaxChunks + 1 : PageChunk(n)
    \/ PageVid

SpecPaging == InitPaging /\ [][NextPaging]_vars

\* ---------------------------------------------------------------- playlists
\* the longest playlist has MaxEntries entries
MaxEntries == 3

\* What extract_info gives: a media, or a playlist with its entries, each a
\* dict whose id is a string or is not there.
EntryIds == {StrV("a"), StrV("b"), NoneV}
Entry(id) == [id |-> id]
RECURSIVE EntryLists(_)
EntryLists(len) ==
    IF len = 0 THEN {<<>>}
    ELSE EntryLists(len - 1)
         \cup {Append(entries, Entry(id)) :
                 entries \in {e \in EntryLists(len - 1) : Len(e) = len - 1},
                 id \in EntryIds}
Extracted ==
    {[type |-> "video", id |-> StrV("v"), entries |-> <<>>]}
    \cup {[type |-> "playlist", id |-> StrV("p"), entries |-> entries] :
            entries \in EntryLists(MaxEntries)}

\* playlist_videos as the Spotify step leaves it: empty, or the candidates
\* after the first
Candidates == {<<>>, <<"s2">>, <<"s2", "s3">>}

\* "for video in entries: ... playlist_videos.append(vid)"
RECURSIVE Appended(_, _)
Appended(videos, entries) ==
    IF entries = <<>> THEN videos
    ELSE Appended(IF IsStr(Head(entries).id)
                  THEN Append(videos, Head(entries).id.s) ELSE videos,
                  Tail(entries))

\* the playlist step of download(): playlist_videos and data (info) after it
playlist_videos(videos, info) ==
    IF info.type = "playlist" /\ info.entries # <<>>
    THEN LET all == Appended(videos, info.entries)
         IN  IF all # <<>> THEN Tail(all) ELSE all
    ELSE videos

active(info) ==
    IF info.type = "playlist" /\ info.entries # <<>>
    THEN [type |-> "video", id |-> info.entries[1].id, entries |-> <<>>]
    ELSE info

\* out of download(): the error of a media id that is no string, or the
\* media response, whose keys hold "playlist_videos" only for a list that
\* is not empty
out(videos, info) ==
    LET media_id == active(info).id
        list == playlist_videos(videos, info)
    IN  IF ~IsStr(media_id)
        THEN [action |-> "error", id |-> "", keys |-> {}, playlist_videos |-> <<>>]
        ELSE [action |-> "media", id |-> media_id.s,
              keys |-> IF list # <<>> THEN {"playlist_videos"} ELSE {},
              playlist_videos |-> IF list # <<>> THEN list ELSE <<>>]

\* What spotify_url_processor.auto(url) gives for the URL of the request:
\* nothing (no Spotify URL, or no processor), a search string (a track, an
\* episode), or a list of candidates (an album, a playlist, a show ...).
Processed ==
    {[k |-> "none", s |-> "", list |-> <<>>],
     [k |-> "str", s |-> "artist - name", list |-> <<>>],
     [k |-> "list", s |-> "", list |-> <<>>]}
    \cup {[k |-> "list", s |-> "", list |-> <<"s1">> \o rest] : rest \in Candidates}

\* what auto(first_url) gives for the first candidate: its search string,
\* or nothing
Firsts == {"first - name", ""}

RequestUrl == "spotify:x"

\* The Spotify step of download(): the error it returns, or the url that
\* goes to extract_info and playlist_videos.
spotify(url, processed_url, _url) ==
    IF processed_url.k = "list" /\ processed_url.list # <<>>
    THEN IF _url = ""
         THEN [res |-> "error", url |-> url, videos |-> <<>>]
         ELSE [res |-> "ok", url |-> url, videos |-> Tail(processed_url.list)]
    ELSE IF processed_url.k = "str" /\ processed_url.s # ""
    THEN [res |-> "ok", url |-> processed_url.s, videos |-> <<>>]
    ELSE [res |-> "ok", url |-> url, videos |-> <<>>]

SpotifyError ==
    [action |-> "error", id |-> "", keys |-> {}, playlist_videos |-> <<>>]

InitListing ==
    /\ conn = [c \in Conns |-> Idle(0)]
    /\ disk = {}
    /\ data = [f \in {} |-> 0]
    /\ now = 0
    /\ sweep = ready(DATA_CACHE_CLEANUP_INTERVAL, DATA_CACHE_CLEANUP_AFTER)
    /\ paging = NoPaging
    /\ loop = NoLoop
    /\ naming = NoNaming
    /\ \E processed_url \in Processed, _url \in Firsts, extracted \in Extracted :
          listing = [kind |-> "requested", processed |-> processed_url,
                     first |-> _url, url |-> RequestUrl, videos |-> <<>>,
                     data |-> extracted, out |-> NoResp]

\* download() from "if spotify_url_processor" to extract_info(url)
Process ==
    /\ listing.kind = "requested"
    /\ LET step == spotify(listing.url, listing.processed, listing.first)
       IN  listing' = IF step.res = "error"
                      THEN [listing EXCEPT !.kind = "returned", !.out = SpotifyError]
                      ELSE [listing EXCEPT !.kind = "extracted",
                                           !.url = step.url,
                                           !.videos = step.videos]
    /\ UNCHANGED <<naming, loop, conn, disk, data, now, sweep, paging>>

\* download() from the playlist step to its return
Summarize ==
    /\ listing.kind = "extracted"
    /\ listing' = [listing EXCEPT !.kind = "returned",
                                  !.out = out(listing.videos, listing.data)]
    /\ UNCHANGED <<naming, loop, conn, disk, data, now, sweep, paging>>

NextListing ==
    \/ Process
    \/ Summarize

SpecListing == InitListing /\ [][NextListing]_vars

\* ------------------------------------------------------------------ events
\* the lines one converter prints
MaxOutput == 2
\* the progress reports of one download
MaxProgress == 1

Status(m) == [action |-> "status", message |-> m]

\* the line a converter prints, as the handler gets it
Line(converter, k) == converter \o " " \o ToString(k)

\* One request_media followed from the thread of download() through the
\* event loop to the websocket.
\*   thread     the position of download(): "start", "fetch", "audio",
\*              "video", "returned" (or "none")
\*   handler    request_media: "awaiting" the thread, "resumed",
\*              "sending" its response, "replied"
\*   ready      the callbacks of the event loop, run in the order they were
\*              put: a send of an event, or the result of the thread
\*   holder     a send holds the lock of the websocket, suspended in its
\*              write; waiters: the sends that wait for the lock, in order
\*   wire       the frames written to the client, each with the sender:
\*              the "thread" or the "handler"
\*   out        what download() returned
\*   scheduled  the events the thread has scheduled, in order
\*   produced   the lines the converters have printed
\*   printed, progress: counters of the converter in hand and the download
InitLoop ==
    /\ conn = [c \in Conns |-> Idle(0)]
    /\ disk = {}
    /\ data = [f \in {} |-> 0]
    /\ now = 0
    /\ sweep = ready(DATA_CACHE_CLEANUP_INTERVAL, DATA_CACHE_CLEANUP_AFTER)
    /\ paging = NoPaging
    /\ listing = NoListing
    /\ naming = NoNaming
    /\ \E is_vid \in BOOLEAN :
          loop = [thread |-> "start", handler |-> "awaiting", video |-> is_vid,
                  ready |-> <<>>, holder |-> FALSE, waiters |-> <<>>,
                  wire |-> <<>>, scheduled |-> <<>>,
                  produced |-> [audio |-> <<>>, video |-> <<>>],
                  printed |-> 0, progress |-> 0, out |-> NoResp]

\* run_coroutine_threadsafe(resp.send(dumps(event)), loop)
Scheduled(l, event) ==
    [l EXCEPT !.ready = Append(@, [t |-> "send", by |-> "thread", frame |-> event]),
              !.scheduled = Append(@, event)]

\* the result of the thread reaches request_media ahead of the callbacks
\* that wait in the event loop
ReturnedAhead(l, result) ==
    [l EXCEPT !.thread = "returned", !.out = result, !.handler = "resumed"]

\* the thread is done: its result is put to the event loop
Returned(l, result) ==
    [l EXCEPT !.thread = "returned", !.out = result,
              !.ready = Append(@, [t |-> "result", by |-> "thread", frame |-> result])]

\* download(): "Getting resource information ..." and, after extract_info
\* and the exists checks, "Downloading resource ..."
ThreadStart ==
    /\ loop.thread = "start"
    /\ loop' = [Scheduled(Scheduled(loop,
                    Status("Getting resource information ...")),
                    Status("Downloading resource ...")) EXCEPT !.thread = "fetch"]
    /\ UNCHANGED <<naming, conn, disk, data, now, sweep, paging, listing>>

\* download(): after "Getting resource information ..." the resource has
\* no data, no media id or is live, and an error is returned
ThreadRejects ==
    /\ loop.thread = "start"
    /\ loop' = Returned(Scheduled(loop, Status("Getting resource information ...")),
                        Err("no media"))
    /\ UNCHANGED <<naming, conn, disk, data, now, sweep, paging, listing>>

\* my_hook: a progress report of process_ie_result
ThreadProgress ==
    /\ loop.thread = "fetch"
    /\ loop.progress < MaxProgress
    /\ loop' = [Scheduled(loop, Status("download")) EXCEPT !.progress = @ + 1]
    /\ UNCHANGED <<naming, conn, disk, data, now, sweep, paging, listing>>

\* process_ie_result is done; download_audio sends its first status
ThreadFetched ==
    /\ loop.thread = "fetch"
    /\ loop' = [Scheduled(loop, Status("Converting audio to dfpwm ..."))
                   EXCEPT !.thread = "audio"]
    /\ UNCHANGED <<naming, conn, disk, data, now, sweep, paging, listing>>

\* ffmpeg prints a line: the handler of download_audio logs it
AudioLine ==
    /\ loop.thread = "audio"
    /\ loop.printed < MaxOutput
    /\ loop' = [loop EXCEPT !.printed = @ + 1,
                            !.produced.audio = Append(@, Line("ffmpeg", loop.printed + 1))]
    /\ UNCHANGED <<naming, conn, disk, data, now, sweep, paging, listing>>

\* ffmpeg exits; download_video, if it is to run, sends its first status
AudioDone(returncode) ==
    /\ loop.thread = "audio"
    /\ LET l == IF returncode # 0
                THEN Scheduled(loop, Err("Faild to convert audio!")) ELSE loop
       IN  loop' = IF loop.video
                   THEN [Scheduled(l, Status("Converting video to 32vid ..."))
                            EXCEPT !.thread = "video", !.printed = 0]
                   ELSE Returned(l, Ok("media"))
    /\ UNCHANGED <<naming, conn, disk, data, now, sweep, paging, listing>>

\* sanjuuni prints a line: the handler of download_video logs and sends it
VideoLine ==
    /\ loop.thread = "video"
    /\ loop.printed < MaxOutput
    /\ LET line == Line("sanjuuni", loop.printed + 1)
       IN  loop' = [Scheduled(loop, Status(line)) EXCEPT
                       !.printed = @ + 1,
                       !.produced.video = Append(@, line)]
    /\ UNCHANGED <<naming, conn, disk, data, now, sweep, paging, listing>>

\* sanjuuni exits
VideoDone(returncode) ==
    /\ loop.thread = "video"
    /\ loop' = Returned(IF returncode # 0
                        THEN Scheduled(loop, Err("Faild to convert video!"))
                        ELSE loop, Ok("media"))
    /\ UNCHANGED <<naming, conn, disk, data, now, sweep, paging, listing>>

\* ws.send(frame): with the lock free and nobody in line for it the frame
\* is written, and the send may be suspended in its write with the lock
\* held; else it waits in line
Send(l, by, frame, suspends) ==
    IF l.holder \/ l.waiters # <<>>
    THEN [l EXCEPT !.waiters = Append(@, [by |-> by, frame |-> frame])]
    ELSE [l EXCEPT !.wire = Append(@, [by |-> by, frame |-> frame]), !.holder = suspends]

\* the send of the handler has written its frame
Answered(l) ==
    IF l.handler = "sending" /\ l.wire # <<>> /\ l.wire[Len(l.wire)].by = "handler"
    THEN [l EXCEPT !.handler = "replied"] ELSE l

\* the event loop runs its next callback
RunCallback(suspends) ==
    /\ loop.thread # "none"
    /\ loop.ready # <<>>
    /\ LET cb == Head(loop.ready)
           l == [loop EXCEPT !.ready = Tail(@)]
       IN  loop' = IF cb.t = "send" THEN Send(l, cb.by, cb.frame, suspends)
                   ELSE [l EXCEPT !.handler = "resumed"]
    /\ UNCHANGED <<naming, conn, disk, data, now, sweep, paging, listing>>

\* the write of the holder is done: the lock goes to the send that has
\* waited longest, which writes when the event loop runs it
Drained(suspends) ==
    /\ loop.thread # "none"
    /\ loop.holder \/ loop.waiters # <<>>
    /\ loop' = IF loop.waiters = <<>> THEN [loop EXCEPT !.holder = FALSE]
               ELSE Answered([loop EXCEPT !.waiters = Tail(@),
                                          !.wire = Append(@, Head(loop.waiters)),
                                          !.holder = suspends])
    /\ UNCHANGED <<naming, conn, disk, data, now, sweep, paging, listing>>

\* request_media returns out and wshandler sends it
Respond(suspends) ==
    /\ loop.thread # "none"
    /\ loop.handler = "resumed"
    /\ loop' = Answered(Send([loop EXCEPT !.handler = "sending"], "handler", loop.out, suspends))
    /\ UNCHANGED <<naming, conn, disk, data, now, sweep, paging, listing>>

NextLoop ==
    \/ ThreadStart
    \/ ThreadRejects
    \/ ThreadProgress
    \/ ThreadFetched
    \/ AudioLine
    \/ \E returncode \in {0, 1} : AudioDone(returncode)
    \/ VideoLine
    \/ \E returncode \in {0, 1} : VideoDone(returncode)
    \/ \E suspends \in BOOLEAN : RunCallback(suspends)
    \/ \E suspends \in BOOLEAN : Drained(suspends)
    \/ \E suspends \in BOOLEAN : Respond(suspends)

SpecLoop == InitLoop /\ [][NextLoop]_vars

\* ------------------------------------------------------------------ naming
\* One artifact key (id, width, height) and the file names the three ways
\* into the server make of it: request_media, the websocket paging actions
\* and the HTTP routes. The router gives the routes a string without "/"
\* for the id and integers for the rest.
Dims == {-1, 0, 2, MAX_DIM + 2}
RouteIds == SafeIds \cup {"a.b"}

\* the files download() returns for a media id, and request_media stores
converted(media_id, width, height) ==
    LET r == [mid |-> media_id,
              msg |-> Frame("obj", StrV("request_media"), StrV("u_ok"), NoneV,
                            NoneV, NoneV, IntV(width), IntV(height))]
    IN  {AudioFile(r)} \cup (IF is_video(r.msg) THEN {VideoFile(r)} ELSE {})

\* the files the websocket actions address: those whose entry they set
paged_audio(media_id, chunkindex) ==
    get_chunk(Frame("obj", StrV("get_chunk"), NoneV, StrV(media_id),
                    IntV(chunkindex), NoneV, NoneV, NoneV)).touch

paged_video(media_id, width, height, tracker) ==
    get_vid(Frame("obj", StrV("get_vid"), NoneV, StrV(media_id), NoneV,
                  IntV(tracker), IntV(width), IntV(height))).touch

\* the file each HTTP route opens
stream_dfpwm(media_id, chunkindex) == {get_audio_name(media_id)}
stream_32vid(media_id, width, height, tracker) ==
    {get_video_name(media_id, width, height)}

InitNaming ==
    /\ conn = [c \in Conns |-> Idle(0)]
    /\ disk = {}
    /\ data = [f \in {} |-> 0]
    /\ now = 0
    /\ sweep = ready(DATA_CACHE_CLEANUP_INTERVAL, DATA_CACHE_CLEANUP_AFTER)
    /\ paging = NoPaging
    /\ listing = NoListing
    /\ loop = NoLoop
    /\ \E media_id \in RouteIds, width \in Dims, height \in Dims :
          naming = [kind |-> "key", id |-> media_id, width |-> width,
                    height |-> height, done |-> {}, registered |-> {},
                    paged |-> {}, streamed |-> {}]

\* a request_media of the key has returned its files
Convert ==
    /\ naming.kind = "key" /\ "request_media" \notin naming.done
    /\ naming' = [naming EXCEPT
          !.done = @ \cup {"request_media"},
          !.registered = converted(naming.id, naming.width, naming.height)]
    /\ UNCHANGED <<conn, disk, data, now, sweep, paging, listing, loop>>

\* a get_chunk and a get_vid of the key
Page ==
    /\ naming.kind = "key" /\ "paging" \notin naming.done
    /\ naming' = [naming EXCEPT
          !.done = @ \cup {"paging"},
          !.paged = paged_audio(naming.id, 0)
                    \cup paged_video(naming.id, naming.width, naming.height, 0)]
    /\ UNCHANGED <<conn, disk, data, now, sweep, paging, listing, loop>>

\* GET /dfpwm/<id>/0 and GET /32vid/<id>/<width>/<height>/0
Stream ==
    /\ naming.kind = "key" /\ "http" \notin naming.done
    /\ naming' = [naming EXCEPT
          !.done = @ \cup {"http"},
          !.streamed = stream_dfpwm(naming.id, 0)
                       \cup stream_32vid(naming.id, naming.width, naming.height, 0)]
    /\ UNCHANGED <<conn, disk, data, now, sweep, paging, listing, loop>>

NextNaming ==
    \/ Convert
    \/ Page
    \/ Stream

SpecNaming == InitNaming /\ [][NextNaming]_vars

\* ================================================================== claims
ActionIs(m, a) == m.kind = "obj" /\ m.action = StrV(a)
Paging(m) == ActionIs(m, "get_chunk") \/ ActionIs(m, "get_vid")

\* the fields of a paging request all have their types
WellTyped(m) ==
    IF ActionIs(m, "get_chunk")
    THEN IsInt(m.chunkindex) /\ IsStr(m.id)
    ELSE IsInt(m.tracker) /\ IsStr(m.id) /\ IsInt(m.width) /\ IsInt(m.height)

\* a request_media is in progress on the connection
InPipeline(r) ==
    r.pc \in {"resolve", "extract", "chk_audio", "chk_video", "fetch",
              "audio_run", "video_run", "register"}

\* the request in progress has started its audio / video converter
AudioStarted(r) ==
    \/ r.pc = "audio_run"
    \/ r.pc \in {"video_run", "register"} /\ NeedAudio(r)
VideoStarted(r) ==
    \/ r.pc = "video_run"
    \/ r.pc = "register" /\ NeedVideo(r)

\* C1: two request_media calls with the same (url, width, height) that run
\* concurrently never both start the audio converter of the media, and never
\* both start the video converter of the media and dimensions.
C1_OneConverterPerKey ==
    \A c \in Conns, d \in Conns :
        (/\ c # d
         /\ InPipeline(conn[c]) /\ InPipeline(conn[d])
         /\ conn[c].msg = conn[d].msg)
        => /\ ~(AudioStarted(conn[c]) /\ AudioStarted(conn[d]))
           /\ ~(VideoStarted(conn[c]) /\ VideoStarted(conn[d]))

SweepStep == sweep' # sweep

\* C2: no step of the sweep removes a cache entry, or deletes the file of a
\* cache entry, whose age at that step is within the retention threshold.
C2_SweepSparesFresh ==
    [][\A f \in DOMAIN data :
          (/\ SweepStep
           /\ \/ f \notin DOMAIN data'
              \/ f \in disk /\ f \notin disk')
          => now - data[f] > DATA_CACHE_CLEANUP_AFTER]_vars

\* C3: when a pass ends, every entry that was stale when the pass took its
\* snapshot has been removed, unless it was set anew since. On the way: a
\* stale entry is taken in hand when the pass visits it; with no file it
\* goes on to the removal of the entry with nothing touched and no error; a
\* delete that succeeds deletes the file of that entry, which was there, and
\* nothing else; the removal of the entry removes that entry and nothing
\* else, never fails on a missing key, and the entry is not visited again in
\* the pass; and the sweep fails on no step but a delete of a file that is
\* there.
C3_StaleRemovedOnce ==
    [][/\ (sweep.pc = "iter" /\ sweep'.pc = "sleep")
          => \A e \in sweep.due :
                e[1] \notin DOMAIN data \/ data[e[1]] # e[2]
       /\ (sweep.pc = "iter" /\ SweepStep /\ sweep'.pc # "sleep")
          => \E e \in sweep.todo :
                /\ sweep'.todo = sweep.todo \ {e}
                /\ Stale(e[2]) => sweep'.pc = "exists" /\ sweep'.cur = e
                /\ ~Stale(e[2]) => sweep'.pc = "iter"
       /\ (sweep.pc = "exists" /\ SweepStep)
          => /\ sweep'.pc = IF sweep.cur[1] \in disk THEN "remove" ELSE "pop"
             /\ disk' = disk /\ data' = data
       /\ (sweep.pc = "remove" /\ sweep'.pc = "deleted")
          => /\ sweep.cur[1] \in disk
             /\ disk' = disk \ {sweep.cur[1]}
             /\ data' = data
       /\ (sweep.pc # "dead" /\ sweep'.pc = "dead")
          => sweep.pc = "remove" /\ sweep.cur[1] \in disk
       /\ (sweep.pc \in {"deleted", "pop"} /\ SweepStep)
          => /\ sweep'.pc = "iter"
             /\ sweep.cur[1] \in DOMAIN data
             /\ DOMAIN data' = DOMAIN data \ {sweep.cur[1]}
             /\ \A f \in DOMAIN data' : data'[f] = data[f]
             /\ disk' = disk
             /\ \A e \in sweep'.todo : e[1] # sweep.cur[1]]_vars

\* the sweep has deleted the file of a stale entry and is about to remove
\* the entry, while another file is still there
C3_Witness ==
    /\ sweep.pc = "deleted"
    /\ sweep.cur[1] \notin disk
    /\ sweep.cur[1] \in DOMAIN data
    /\ disk # {}

\* C4: the sweep task is never ended by the failure of one file's delete.
C4_SweepSurvives == sweep.pc # "dead"

\* C5: a get_chunk or get_vid with well-typed fields and a safe id never
\* ends the connection: when the file does not exist it is answered with an
\* error envelope.
C5_MissingFileIsError ==
    \A c \in Conns :
        (/\ Paging(conn[c].msg) /\ WellTyped(conn[c].msg)
         /\ is_save(conn[c].msg.id.s))
        => conn[c].pc # "crashed"

\* C6: a get_chunk or get_vid whose id is a string that fails is_save is
\* at once at the end of its handling with an error envelope, and no file
\* was opened for it.
C6_UnsafeIdRejected ==
    \A c \in Conns :
        (/\ Paging(conn[c].msg)
         /\ IsStr(conn[c].msg.id) /\ ~is_save(conn[c].msg.id.s))
        => /\ conn[c].pc = "reply"
           /\ conn[c].resp.action = "error"
           /\ conn[c].io = "none"

\* a well-typed get_vid with an unsafe id got the special-characters error
C6_Witness ==
    \E c \in Conns :
        /\ ActionIs(conn[c].msg, "get_vid") /\ WellTyped(conn[c].msg)
        /\ ~is_save(conn[c].msg.id.s)
        /\ conn[c].pc = "reply"
        /\ conn[c].resp = SpecialChars

\* The fields the protocol gives each action, in the order they are
\* checked: name, type, and whether the field may be left out.
Fields(a) ==
    CASE a = "request_media" ->
            <<<<"url", "str", FALSE>>, <<"width", "int", TRUE>>,
              <<"height", "int", TRUE>>>>
      [] a = "get_chunk" ->
            <<<<"chunkindex", "int", FALSE>>, <<"id", "str", FALSE>>>>
      [] a = "get_vid" ->
            <<<<"tracker", "int", FALSE>>, <<"id", "str", FALSE>>,
              <<"width", "int", FALSE>>, <<"height", "int", FALSE>>>>
      [] OTHER -> <<>>

FieldBad(m, fd) ==
    /\ m[fd[1]].k # fd[2]
    /\ ~(fd[3] /\ m[fd[1]].k = "none")

BadFields(m) == {i \in DOMAIN Fields(m.action.s) : FieldBad(m, Fields(m.action.s)[i])}

\* a request of a known action with a field missing or of the wrong type
Malformed(m) == m.kind = "obj" /\ InActions(m) /\ BadFields(m) # {}

FirstBad(m) ==
    Fields(m.action.s)[CHOOSE i \in BadFields(m) : \A j \in BadFields(m) : i <= j]

\* C7: a frame that json.loads rejects with JSONDecodeError, that decodes to
\* something that is not an object, or that is an object of an unknown
\* action, leaves the connection connected.
C7_MalformedKeepsConnected ==
    \A c \in Conns :
        (\/ conn[c].msg.kind \in {"invalid", "nonobj"}
         \/ conn[c].msg.kind = "obj" /\ ~InActions(conn[c].msg))
        => conn[c].pc \notin {"crashed", "closed"}

\* C8: a frame that fails JSON parsing is answered with the parse-error
\* envelope, with no action handler invoked, and the loop goes on.
C8_ParseFailureAnswered ==
    \A c \in Conns :
        conn[c].msg.kind \in {"invalid", "toodeep"}
        => /\ conn[c].pc = "reply"
           /\ conn[c].resp = ParseError
           /\ conn[c].io = "none"

\* C9: a parsed request of an unknown action ends with no response; a
\* request of a known action whose fields have their types ends with a
\* response, never without.
C9_KnownActionAnswered ==
    \A c \in Conns :
        (conn[c].msg.kind = "obj" /\ conn[c].msg.action.k # "list")
        => IF InActions(conn[c].msg)
           THEN ~Malformed(conn[c].msg)
                => /\ conn[c].pc # "crashed"
                   /\ conn[c].pc = "reply" => conn[c].resp # NoResp
           ELSE conn[c].pc = "reply" /\ conn[c].resp = NoResp

\* C10: a request_media, get_chunk or get_vid with a field missing or of
\* the wrong type is answered with "<field> must be a <type>" for its first
\* such field, with neither the pipeline nor a file read invoked.
C10_BadFieldNamed ==
    \A c \in Conns :
        (Malformed(conn[c].msg) /\ conn[c].msg.action.s # "handshake")
        => /\ conn[c].pc = "reply"
           /\ conn[c].resp = MustBe(FirstBad(conn[c].msg)[1], FirstBad(conn[c].msg)[2])
           /\ conn[c].io = "none"

\* C11: within one connection a frame is received only while no request is
\* in hand, it is the next in number, the request in hand is not replaced
\* before its end, and the connection comes back to ws.recv() only from the
\* end of the iteration, where the final response has been sent.
C11_OneAtATime ==
    [][\A c \in Conns :
          /\ conn'[c].n # conn[c].n
             => /\ conn[c].pc = "recv" /\ conn[c].msg = NoFrame
                /\ conn'[c].n = conn[c].n + 1
                /\ conn'[c].msg # NoFrame
          /\ (conn[c].msg # NoFrame /\ conn'[c].msg # conn[c].msg)
             => conn[c].pc = "reply" /\ conn'[c].msg = NoFrame
          /\ (conn[c].pc # "recv" /\ conn'[c].pc = "recv")
             => conn[c].pc = "reply"]_vars

\* the second frame of a connection is in hand, with its file to be read
C11_Witness ==
    \E c \in Conns : conn[c].n = 2 /\ conn[c].pc = "read"

\* the chunks a file of that size has
ChunkCount(size) == (size + CHUNKS_AT_ONCE - 1) \div CHUNKS_AT_ONCE

\* C12: the chunk of index n is the bytes n*CHUNKS_AT_ONCE up to, and not
\* with, n*CHUNKS_AT_ONCE + CHUNKS_AT_ONCE of the file, cut at the end of the
\* file and empty from there on; the chunks 0 .. ceil(size/CHUNKS_AT_ONCE)-1
\* in a row are the file.
C12_ChunksAreTheFile ==
    paging.kind = "audio" =>
        LET size == Len(paging.file)
            from == paging.n * CHUNKS_AT_ONCE
            upto == Min(from + CHUNKS_AT_ONCE, size)
        IN  /\ paging.n >= 0 =>
                  Len(paging.chunk) = IF upto > from THEN upto - from ELSE 0
            /\ \A i \in 1..Len(paging.chunk) : paging.chunk[i] = paging.file[from + i]
            /\ paging.next >= ChunkCount(size) =>
                  paging.out = paging.file
            /\ paging.next <= ChunkCount(size) =>
                  paging.out = SubSeq(paging.file, 1,
                                      Min(paging.next * CHUNKS_AT_ONCE, size))

\* a file that ends inside its third chunk was read to its end, the last
\* chunk being the short one
C12_Witness ==
    /\ paging.kind = "audio"
    /\ Len(paging.file) = 2 * CHUNKS_AT_ONCE + 1
    /\ paging.next = 3 /\ paging.n = 2
    /\ Len(paging.chunk) = 1
    /\ paging.out = paging.file

\* the line as the client should have it: with its newline taken off, and
\* as it is when it has none
Unterminated(line) ==
    IF line # <<>> /\ line[Len(line)] = "\n" THEN AllButLast(line) ELSE line

RECURSIVE Joined(_)
Joined(lines) == IF lines = <<>> THEN <<>> ELSE Head(lines) \o Joined(Tail(lines))

\* C13: the pages chained from tracker 0, each from the end of the page
\* before, go through the file with no line dropped or read twice, and every
\* record is its frame line without the newline at its end, the last line
\* of a file that does not end in a newline as it is.
C13_PagesAreTheLines ==
    paging.kind = "video" =>
        /\ Joined(paging.raw) = SubSeq(paging.file, 1, paging.tracker)
        /\ Len(paging.lines) = Len(paging.raw)
        /\ \A i \in 1..Len(paging.raw) :
              paging.lines[i] = Unterminated(paging.raw[i])

Request(r) == ActionIs(r.msg, "request_media") /\ IsStr(r.msg.url)

\* C14: when the audio converter exits non-zero the error event of the
\* audio is sent and the video converter, if the request needs it, is run
\* next; when the video converter exits non-zero the error event of the
\* video is sent, download() returns, and the audio file is kept.
C14_SiblingStillConverted ==
    [][\A c \in Conns :
          /\ (conn[c].pc = "audio_run" /\ conn'[c].rc.audio > 0)
             => /\ "Faild to convert audio!" \in conn'[c].events
                /\ NeedVideo(conn[c]) => conn'[c].pc = "video_run"
          /\ (conn[c].pc = "video_run" /\ conn'[c].rc.video > 0)
             => /\ "Faild to convert video!" \in conn'[c].events
                /\ conn'[c].pc \in {"register", "closed"}
                /\ AudioFile(conn[c]) \in disk => AudioFile(conn[c]) \in disk']_vars

\* the video converter runs after the audio converter has failed
C14_Witness ==
    \E c \in Conns :
        /\ conn[c].pc = "video_run"
        /\ conn[c].rc.audio > 0
        /\ "Faild to convert audio!" \in conn[c].events

\* C15: when request_media has its media response, every file name that
\* download() returned names a file that is on disk.
C15_ReturnedFilesExist ==
    \A c \in Conns :
        (conn[c].pc = "reply" /\ conn[c].resp = Ok("media"))
        => \A i \in DOMAIN FilesOf(conn[c]) : FilesOf(conn[c])[i] \in disk

\* C16: a request_media whose resolution fails, by an exception or with no
\* data, ends with an error response and the connection open, with no media
\* id and no converter run.
C16_ResolverFailureAnswered ==
    \A c \in Conns :
        (/\ Request(conn[c]) /\ ~ClampFails(conn[c].msg)
         /\ conn[c].msg.url.s \in {"u_nodata", "u_raise"}
         /\ conn[c].pc \notin {"resolve", "extract"})
        => /\ conn[c].pc = "reply"
           /\ conn[c].resp.action = "error"
           /\ conn[c].mid = "" /\ conn[c].rc = [audio |-> -1, video |-> -1]

\* the positions of download() inside its with block
InWith == {"extract", "chk_audio", "chk_video", "fetch", "audio_run", "video_run"}

C18_DisconnectStillRegisters ==
    \A c \in Conns :
        (conn[c].gone # "no" /\ conn[c].mid # "" /\ conn[c].pc = "closed")
        => conn[c].files = <<>>

Live == Err("Livestreams are not supported")

\* C19: in the handling of a request_media of a live media no step changes
\* the Cache Store or the files, no download and no converter is started,
\* and once the Resolver has answered the request is at its end with the
\* error envelope.
C19_LiveRejected ==
    [][\A c \in Conns :
          (/\ Request(conn'[c]) /\ conn'[c].msg.url.s = "u_live"
           /\ ~ClampFails(conn'[c].msg)
           /\ conn'[c] # conn[c])
          => /\ data' = data /\ disk' = disk
             /\ conn'[c].pc \in {"resolve", "extract", "reply"}
             /\ conn'[c].mid = "" /\ conn'[c].files = <<>>
             /\ conn'[c].rc = [audio |-> -1, video |-> -1]
             /\ conn[c].pc = "extract"
                => conn'[c].pc = "reply" /\ conn'[c].resp = Live]_vars

\* a request_media of a live media has its error envelope
C19_Witness ==
    \E c \in Conns :
        /\ Request(conn[c]) /\ conn[c].msg.url.s = "u_live"
        /\ conn[c].pc = "reply" /\ conn[c].resp = Live
        /\ conn[c].n = 2 /\ data = [f \in {} |-> 0]

\* the ids of the entries, those that have one, in order
RECURSIVE Ids(_)
Ids(entries) ==
    IF entries = <<>> THEN <<>>
    ELSE (IF IsStr(Head(entries).id) THEN <<Head(entries).id.s>> ELSE <<>>)
         \o Ids(Tail(entries))

\* C20: the media response for a playlist e1..en is of e1, and its
\* playlist_videos is the ids of e2..en in order; with no entry after e1
\* the response has no playlist_videos key, as for a single media that came
\* with no other candidates.
C20_PlaylistRest ==
    (listing.kind = "returned" /\ listing.out.action = "media") =>
        IF listing.data.type = "playlist" /\ listing.data.entries # <<>>
        THEN LET rest == Ids(Tail(listing.data.entries))
             IN  /\ listing.out.id = listing.data.entries[1].id.s
                 /\ rest # <<>> =>
                       /\ "playlist_videos" \in listing.out.keys
                       /\ listing.out.playlist_videos = rest
                 /\ rest = <<>> => "playlist_videos" \notin listing.out.keys
        ELSE listing.videos = <<>> => "playlist_videos" \notin listing.out.keys

\* C21: when the PlaylistResolver gave a list c1..cn and resolved c1, the
\* url that goes to extract_info is the resolution of c1, and
\* playlist_videos holds c2..cn.
C21_FirstCandidateResolved ==
    (/\ listing.kind = "extracted"
     /\ listing.processed.k = "list" /\ listing.processed.list # <<>>)
    => /\ listing.url = listing.first
       /\ listing.videos = Tail(listing.processed.list)

\* the status events of the lines of a converter among the events
LineEvents(events, converter) ==
    SelectSeq(events, LAMBDA e :
        e.action = "status" /\ \E k \in 1..MaxOutput : e.message = Line(converter, k))

RECURSIVE Statuses(_)
Statuses(lines) ==
    IF lines = <<>> THEN <<>> ELSE <<Status(Head(lines))>> \o Statuses(Tail(lines))

\* C22: of each converter, audio and video, the lines printed so far have
\* each their status event scheduled for the client, in the order of the
\* lines, at every moment of the run and so before the exit is reported.
C22_LinesBecomeEvents ==
    loop.thread # "none" =>
        /\ LineEvents(loop.scheduled, "ffmpeg") = Statuses(loop.produced.audio)
        /\ LineEvents(loop.scheduled, "sanjuuni") = Statuses(loop.produced.video)

RECURSIVE FramesOf(_)
FramesOf(sent) ==
    IF sent = <<>> THEN <<>> ELSE <<Head(sent).frame>> \o FramesOf(Tail(sent))

C23_TouchedBeforeOpen ==
    [][\A c \in Conns :
          /\ (/\ conn'[c].n = conn[c].n + 1
              /\ Paging(conn'[c].msg) /\ WellTyped(conn'[c].msg)
              /\ is_save(conn'[c].msg.id.s))
             => /\ PagedFile(conn'[c].msg) \in DOMAIN data'
                /\ data'[PagedFile(conn'[c].msg)] = now
                /\ conn'[c].io = "none"
          /\ (conn[c].pc = "read" /\ conn'[c].pc # "read") => data' = data]_vars

\* the read of a get_vid failed on a file that does not exist, and the
\* file has its cache entry
C23_Witness ==
    \E c \in Conns :
        /\ ActionIs(conn[c].msg, "get_vid") /\ conn[c].pc = "crashed"
        /\ conn[c].io = "paging"
        /\ PagedFile(conn[c].msg) \notin disk
        /\ PagedFile(conn[c].msg) \in DOMAIN data
        /\ data[PagedFile(conn[c].msg)] = now

\* C25: with the interval or the retention of the sweep not positive the
\* sweep is never started, and no step removes an entry of the cache or a
\* file of the data folder.
C25_DisabledSweepRemovesNothing ==
    [][(sweep.interval <= 0 \/ sweep.after <= 0)
       => /\ sweep.pc = "off" /\ sweep'.pc = "off"
          /\ DOMAIN data \subseteq DOMAIN data'
          /\ disk \subseteq disk']_vars

\* with the retention at 0 a file and its entry are there two ticks after
\* the last use of the entry
C25_Witness ==
    /\ sweep.interval > 0 /\ sweep.after = 0
    /\ \E f \in DOMAIN data : f \in disk /\ now - data[f] = MaxTicks * TickSeconds

\* C24: for a safe id and integer dimensions the video file that
\* request_media registers for (id, width, height) is the video file that
\* get_vid addresses for the same (id, width, height).
C24_SameVideoName ==
    (/\ naming.kind = "key" /\ is_save(naming.id)
     /\ {"request_media", "paging"} \subseteq naming.done)
    => naming.registered = naming.paged

\* C26: the HTTP routes open the files the websocket actions address: for
\* an id that fails is_save no file, for a safe id the audio file and the
\* video file of the clamped dimensions.
C26_RoutesLikeActions ==
    (naming.kind = "key" /\ {"http", "paging"} \subseteq naming.done)
    => naming.streamed = naming.paged

\* a frame that is refused without its action being carried out: text
\* that is not JSON, a handshake, an action that is not known, a field
\* that is validated missing or of the wrong type (of request_media the
\* url), a paging request with an unsafe id
Refused(m) ==
    \/ m.kind \in {"invalid", "toodeep"}
    \/ ActionIs(m, "handshake")
    \/ m.kind = "obj" /\ m.action.k # "list" /\ ~InActions(m)
    \/ Malformed(m) /\ (ActionIs(m, "request_media") => ~IsStr(m.url))
    \/ Paging(m) /\ IsStr(m.id) /\ ~is_save(m.id.s)

\* C28: the step that receives a refused frame and the steps that answer
\* it leave the cache as it is;
\* of the steps of a request_media only those of its registration change
\* the cache, and a request_media that gets an error response has not
\* registered: it gets the error in a step that leaves the cache as it is,
\* from a position before the registration.
C28_ErrorsLeaveCache ==
    [][\A c \in Conns :
          /\ (conn'[c].n = conn[c].n + 1 /\ Refused(conn'[c].msg))
             => data' = data
          /\ (/\ conn'[c] # conn[c] /\ conn'[c].n = conn[c].n
              /\ Refused(conn[c].msg))
             => data' = data
          /\ (/\ conn'[c] # conn[c] /\ ActionIs(conn'[c].msg, "request_media")
              /\ data' # data)
             => conn[c].pc = "register" /\ conn'[c].resp.action # "error"
          /\ (/\ ActionIs(conn'[c].msg, "request_media")
              /\ conn'[c].resp.action = "error" /\ conn[c].resp.action # "error")
             => /\ data' = data
                /\ conn[c].pc \in {"recv", "extract"}
                /\ conn'[c].files = <<>>]_vars

\* with an entry in the cache, a paging request with an unsafe id and a
\* request_media of a live stream were each answered with an error
C28_Witness ==
    \E c \in Conns :
        /\ DOMAIN data # {}
        /\ conn[c].pc = "reply" /\ conn[c].resp.action = "error"
        /\ \/ Paging(conn[c].msg) /\ conn[c].resp = SpecialChars
           \/ Request(conn[c]) /\ conn[c].msg.url.s = "u_live"

====
